---- MODULE Spec2Model ----
(***************************************************************************)
(* A model of finance_tracker.py: the Transaction record, the              *)
(* FinanceTracker store with its JSON persistence, and the reporting       *)
(* functions.                                                              *)
(*                                                                         *)
(* Abstractions.  Amounts and budget limits are integers and arithmetic is *)
(* exact: a quotient such as the budget percentage is kept as a fraction   *)
(* [num, den] and compared by cross-multiplication.  Wall-clock time is a  *)
(* pair [day, tod]: a day number counted from 2024-01-01 and a tick within *)
(* the day (tod = 0 is midnight).  A JSON document is a sequence of tokens *)
(* written one at a time by json.dump.                                     *)
(***************************************************************************)
EXTENDS Integers, Sequences, FiniteSets, TLC

VARIABLES
    disk,           \* the data file: [exists, content], content a token sequence
    writable,       \* whether open(data_file, 'w') succeeds
    now,            \* the wall clock, [day, tod]
    pc,             \* "start" | "idle" | "saving" | "dead"
    transactions,   \* FinanceTracker.transactions
    budgets,        \* FinanceTracker.budgets, a dict in insertion order
    pending,        \* tokens json.dump has still to write
    warned,         \* load_data printed its warning
    last,           \* the last call of the front end and how it ended
    out             \* the value the last reporting call returned

vars == <<disk, writable, now, pc, transactions, budgets, pending, warned, last, out>>

----------------------------------------------------------------------------
(* Bounds of the model *)

MaxTx == 2          \* add_transaction is called while fewer are stored
TicksPerDay == 2    \* clock readings per day
MaxTicks == 2       \* the clock advances this many times

(* The default of the `days` parameters *)
DefaultDays == 30

\* The day the first process starts: 2024-02-01
StartDay == DefaultDays + 1

----------------------------------------------------------------------------
(* Strings *)

\* str.lower() on the strings of the model
Lower(s) ==
    CASE s = "Food"    -> "food"
      [] s = "Rent"    -> "rent"
      [] s = "Income"  -> "income"
      [] s = "EXPENSE" -> "expense"
      [] OTHER         -> s

Pad2(n) == IF n < 10 THEN "0" \o ToString(n) ELSE ToString(n)

CalendarDays == 0..59

\* datetime.strftime("%Y-%m-%d") of a day number (January and February 2024)
strftime(d) ==
    IF d < 31 THEN "2024-01-" \o Pad2(d + 1) ELSE "2024-02-" \o Pad2(d - 30)

DateStrings == {strftime(d) : d \in CalendarDays}

\* datetime.strptime(s, "%Y-%m-%d"): midnight of that day
strptime(s) == [day |-> CHOOSE d \in CalendarDays : strftime(d) = s, tod |-> 0]

\* datetime - timedelta(days=n)
MinusDays(t, n) == [day |-> t.day - n, tod |-> t.tod]

\* datetime >= datetime
DatetimeGE(a, b) == a.day * TicksPerDay + a.tod >= b.day * TicksPerDay + b.tod

\* datetime.timestamp()
timestamp(t) == t.day * TicksPerDay + t.tod

Abs(x) == IF x < 0 THEN -x ELSE x

----------------------------------------------------------------------------
(* JSON values and documents *)

Num(n) == [t |-> "num", n |-> n, s |-> ""]
Str(s) == [t |-> "str", n |-> 0, s |-> s]
Null   == [t |-> "null", n |-> 0, s |-> ""]

\* Python truthiness of a JSON value (`date or ...`)
Truthy(v) == \/ v.t = "num" /\ v.n # 0
             \/ v.t = "str" /\ v.s # ""

NoRec == [f \in {} |-> Null]

Tok(k)       == [tok |-> k, rec |-> NoRec, bud |-> <<>>]
TxTok(r)     == [tok |-> "tx", rec |-> r, bud |-> <<>>]
BudgetTok(b) == [tok |-> "budgets", rec |-> NoRec, bud |-> b]

\* json.dump of {'transactions': [...], 'budgets': {...}}, token by token
Dump(data) ==
    <<Tok("{")>> \o [i \in 1..Len(data.transactions) |-> TxTok(data.transactions[i])]
                 \o <<BudgetTok(data.budgets), Tok("}")>>

IsObjectText(c) ==
    /\ Len(c) >= 3
    /\ c[1] = Tok("{")
    /\ c[Len(c)] = Tok("}")
    /\ c[Len(c) - 1].tok = "budgets"
    /\ \A i \in 2..(Len(c) - 2) : c[i].tok = "tx"

IsArrayText(c) == c = <<Tok("["), Tok("]")>>

\* json.load: the parsed document, or JSONDecodeError
JsonLoad(c) ==
    IF IsObjectText(c)
    THEN [err |-> "", kind |-> "object",
          transactions |-> [i \in 1..(Len(c) - 3) |-> c[i + 1].rec],
          budgets |-> c[Len(c) - 1].bud]
    ELSE IF IsArrayText(c)
    THEN [err |-> "", kind |-> "array", transactions |-> <<>>, budgets |-> <<>>]
    ELSE [err |-> "JSONDecodeError", kind |-> "", transactions |-> <<>>, budgets |-> <<>>]

----------------------------------------------------------------------------
(* class Transaction *)

\* Transaction.__init__ without abs(): the amount keeps its sign
NewTransactionSigned(amount, category, description, transaction_type, date, t) ==
    [id          |-> timestamp(t),
     amount      |-> amount,
     category    |-> Lower(category),
     description |-> description,
     type        |-> Lower(transaction_type),
     date        |-> IF Truthy(date) THEN date.s ELSE strftime(t.day)]

\* Transaction.__init__ at clock reading t; date is a JSON value, Null for None
NewTransaction(amount, category, description, transaction_type, date, t) ==
    [id          |-> timestamp(t),
     amount      |-> Abs(amount),
     category    |-> Lower(category),
     description |-> description,
     type        |-> Lower(transaction_type),
     date        |-> IF Truthy(date) THEN date.s ELSE strftime(t.day)]

to_dict(tx) ==
    [id          |-> Num(tx.id),
     amount      |-> Num(tx.amount),
     category    |-> Str(tx.category),
     description |-> Str(tx.description),
     type        |-> Str(tx.type),
     date        |-> Str(tx.date)]

\* The exception Transaction.from_dict raises on a record, "" when none
FromDictError(data) ==
    IF {"amount", "category", "description", "type", "date"} \ DOMAIN data # {}
    THEN "KeyError"
    ELSE IF data["amount"].t # "num" THEN "TypeError"
    ELSE IF data["category"].t # "str" THEN "AttributeError"
    ELSE IF data["type"].t # "str" THEN "AttributeError"
    ELSE IF "id" \notin DOMAIN data THEN "KeyError"
    ELSE ""

\* Transaction.from_dict without `transaction.id = data['id']`
from_dict_fresh_id(data, t) ==
    NewTransaction(data["amount"].n, data["category"].s, data["description"].s,
                   data["type"].s, data["date"], t)

from_dict(data, t) ==
    [NewTransaction(data["amount"].n, data["category"].s, data["description"].s,
                    data["type"].s, data["date"], t)
        EXCEPT !.id = data["id"].n]

----------------------------------------------------------------------------
(* class FinanceTracker: the store *)

Min(S) == CHOOSE x \in S : \A y \in S : x <= y

\* The exception the list comprehension of load_data stops with, "" when none
FirstError(recs) ==
    LET bad == {i \in 1..Len(recs) : FromDictError(recs[i]) # ""}
    IN  IF bad = {} THEN "" ELSE FromDictError(recs[Min(bad)])

Loaded(err, w, txs, b) == [err |-> err, warned |-> w, transactions |-> txs, budgets |-> b]

\* FinanceTracker.__init__ followed by load_data on file f at time t: the
\* exception that escapes ("" when none), whether the warning was printed,
\* and the store
load_data(f, t) ==
    IF ~f.exists THEN Loaded("", FALSE, <<>>, <<>>)
    ELSE LET data == JsonLoad(f.content) IN
         IF data.err # "" THEN Loaded("", TRUE, <<>>, <<>>)
         ELSE IF data.kind # "object" THEN Loaded("AttributeError", FALSE, <<>>, <<>>)
         ELSE LET e == FirstError(data.transactions) IN
              IF e = ""
              THEN Loaded("", FALSE,
                          [i \in 1..Len(data.transactions) |->
                              from_dict(data.transactions[i], t)],
                          data.budgets)
              ELSE IF e = "KeyError" THEN Loaded("", TRUE, <<>>, <<>>)
              ELSE Loaded(e, FALSE, <<>>, <<>>)

\* The dict save_data builds from the store
SaveDict(txs, b) ==
    [transactions |-> [i \in 1..Len(txs) |-> to_dict(txs[i])], budgets |-> b]

\* self.budgets[key] = amount on a dict kept in insertion order
DictSet(b, key, amount) ==
    IF \E i \in 1..Len(b) : b[i].key = key
    THEN [i \in 1..Len(b) |-> IF b[i].key = key THEN [key |-> key, amount |-> amount] ELSE b[i]]
    ELSE Append(b, [key |-> key, amount |-> amount])

Keys(b) == {b[i].key : i \in 1..Len(b)}

----------------------------------------------------------------------------
(* class FinanceTracker: the reports *)

DictGet(b, key, default) ==
    IF \E i \in 1..Len(b) : b[i].key = key
    THEN b[CHOOSE i \in 1..Len(b) : b[i].key = key].amount
    ELSE default

\* strptime raises ValueError on one of the dates
BadDate(txs) == \E i \in 1..Len(txs) : txs[i].date \notin DateStrings

InPeriod(tx, days, t) == DatetimeGE(strptime(tx.date), MinusDays(t, days))

get_transactions_by_period(txs, days, t) ==
    SelectSeq(txs, LAMBDA tx : InPeriod(tx, days, t))

RECURSIVE SumAmounts(_)
SumAmounts(txs) ==
    IF txs = <<>> THEN 0 ELSE Head(txs).amount + SumAmounts(Tail(txs))

OfType(txs, type) == SelectSeq(txs, LAMBDA tx : tx.type = type)

\* The loop of get_spending_by_category without its test of transaction.type
RECURSIVE AccumulateAnyType(_, _, _)
AccumulateAnyType(txs, i, spending) ==
    IF i > Len(txs) THEN spending
    ELSE AccumulateAnyType(txs, i + 1,
            DictSet(spending, txs[i].category,
                    DictGet(spending, txs[i].category, 0) + txs[i].amount))

\* The loop of get_spending_by_category over transactions i..Len(txs)
RECURSIVE Accumulate(_, _, _)
Accumulate(txs, i, spending) ==
    IF i > Len(txs) THEN spending
    ELSE IF txs[i].type = "expense"
    THEN Accumulate(txs, i + 1,
            DictSet(spending, txs[i].category,
                    DictGet(spending, txs[i].category, 0) + txs[i].amount))
    ELSE Accumulate(txs, i + 1, spending)

\* sorted(items, key=value, reverse=True): stable, largest first
RECURSIVE SortedDesc(_)
SortedDesc(items) ==
    IF items = <<>> THEN <<>>
    ELSE LET rest == SortedDesc(SubSeq(items, 1, Len(items) - 1))
             x    == items[Len(items)]
             k    == Cardinality({i \in 1..Len(rest) : rest[i].amount >= x.amount})
         IN  SubSeq(rest, 1, k) \o <<x>> \o SubSeq(rest, k + 1, Len(rest))

get_spending_by_category(txs, days, t) ==
    SortedDesc(Accumulate(get_transactions_by_period(txs, days, t), 1, <<>>))

get_income_vs_expenses(txs, days, t) ==
    LET p == get_transactions_by_period(txs, days, t)
        total_income   == SumAmounts(OfType(p, "income"))
        total_expenses == SumAmounts(OfType(p, "expense"))
    IN  [income |-> total_income, expenses |-> total_expenses,
         net |-> total_income - total_expenses]

\* A quotient num / den
Frac(num, den) == [num |-> num, den |-> den]
\* x > n for a quotient x with a positive denominator
FracGT(x, n) == x.num > n * x.den

\* (spent / budget_amount) * 100 if budget_amount > 0 else 0
Percentage(spent, budget_amount) ==
    IF budget_amount > 0 THEN Frac(spent * 100, budget_amount) ELSE Frac(0, 1)

check_budgets(txs, b, t) ==
    LET spending == get_spending_by_category(txs, DefaultDays, t)
    IN  [i \in 1..Len(b) |->
            LET spent == DictGet(spending, b[i].key, 0)
            IN  [category   |-> b[i].key,
                 budget     |-> b[i].amount,
                 spent      |-> spent,
                 remaining  |-> b[i].amount - spent,
                 percentage |-> Percentage(spent, b[i].amount)]]

Recommendation(kind, category, percentage) ==
    [kind |-> kind, category |-> category, percentage |-> percentage]

\* The budget warnings with `if` in place of `elif`
BudgetWarningBoth(status) ==
    (IF FracGT(status.percentage, 90)
     THEN <<Recommendation("exceeded 90%", status.category, Frac(0, 1))>>
     ELSE <<>>)
    \o (IF FracGT(status.percentage, 75)
        THEN <<Recommendation("at percentage", status.category, status.percentage)>>
        ELSE <<>>)

\* The budget warnings of get_financial_insights for one entry of check_budgets
BudgetWarning(status) ==
    IF FracGT(status.percentage, 90)
    THEN <<Recommendation("exceeded 90%", status.category, Frac(0, 1))>>
    ELSE IF FracGT(status.percentage, 75)
    THEN <<Recommendation("at percentage", status.category, status.percentage)>>
    ELSE <<>>

RECURSIVE BudgetWarnings(_)
BudgetWarnings(budget_status) ==
    IF budget_status = <<>> THEN <<>>
    ELSE BudgetWarning(Head(budget_status)) \o BudgetWarnings(Tail(budget_status))

MaxAmount(txs) == CHOOSE m \in {txs[i].amount : i \in 1..Len(txs)} :
                      \A i \in 1..Len(txs) : txs[i].amount <= m
MinAmount(txs) == CHOOSE m \in {txs[i].amount : i \in 1..Len(txs)} :
                      \A i \in 1..Len(txs) : txs[i].amount >= m

\* max(d, key=d.get): the first key, in iteration order, of the largest value
MaxKey(d) ==
    d[Min({i \in 1..Len(d) : \A j \in 1..Len(d) : d[j].amount <= d[i].amount})].key

NoInsights ==
    [message |-> FALSE, period_days |-> 0, total_transactions |-> 0,
     average_expense |-> Frac(0, 1), largest_expense |-> 0, smallest_expense |-> 0,
     most_expensive_category |-> "", recommendations |-> <<>>]

get_financial_insights(txs, b, days, t) ==
    LET p        == get_transactions_by_period(txs, days, t)
        expenses == OfType(p, "expense")
        spending == get_spending_by_category(txs, days, t)
        ive      == get_income_vs_expenses(txs, days, t)
    IN  IF p = <<>> THEN [NoInsights EXCEPT !.message = TRUE]
        ELSE [message |-> FALSE,
              period_days |-> days,
              total_transactions |-> Len(p),
              average_expense |-> IF expenses # <<>>
                                  THEN Frac(SumAmounts(expenses), Len(expenses))
                                  ELSE Frac(0, 1),
              largest_expense |-> IF expenses # <<>> THEN MaxAmount(expenses) ELSE 0,
              smallest_expense |-> IF expenses # <<>> THEN MinAmount(expenses) ELSE 0,
              most_expensive_category |-> IF spending # <<>> THEN MaxKey(spending) ELSE "",
              recommendations |->
                  (IF ive.net < 0
                   THEN <<Recommendation("spending more than you earn", "", Frac(0, 1))>>
                   ELSE <<>>)
                  \o (IF ive.expenses * 10 > ive.income * 8
                      THEN <<Recommendation("spending 80%+ of your income", "", Frac(0, 1))>>
                      ELSE <<>>)
                  \o BudgetWarnings(check_budgets(txs, b, t))]

----------------------------------------------------------------------------
(* The files the first process may find *)

Rec(id, amount, category, description, type, date) ==
    [id |-> id, amount |-> amount, category |-> category,
     description |-> description, type |-> type, date |-> date]

Without(r, field) == [f \in (DOMAIN r) \ {field} |-> r[f]]

Absent == [exists |-> FALSE, content |-> <<>>]
File(c) == [exists |-> TRUE, content |-> c]

\* written by an earlier run: an expense thirty days old, a food budget
PriorRec ==
    Rec(Num(timestamp([day |-> StartDay - DefaultDays, tod |-> 1])), Num(4),
        Str("food"), Str("groceries"), Str("expense"), Str(strftime(StartDay - DefaultDays)))

\* edited by hand: a signed amount, capitals in the category, the type and the budget key
EditedRec ==
    Rec(Num(7), Num(-3), Str("Food"), Str("snack"), Str("EXPENSE"), Str(strftime(StartDay)))

PriorFile ==
    File(Dump([transactions |-> <<PriorRec>>, budgets |-> <<[key |-> "food", amount |-> 8]>>]))

InitialFiles ==
    { Absent,
      PriorFile,
      File(Dump([transactions |-> <<EditedRec>>, budgets |-> <<[key |-> "Food", amount |-> 8]>>])),
      File(Dump([transactions |-> <<EditedRec, PriorRec>>, budgets |-> <<[key |-> "food", amount |-> 0], [key |-> "rent", amount |-> -8]>>])),
      File(Dump([transactions |-> <<[PriorRec EXCEPT !.date = Null]>>, budgets |-> <<>>])),
      File(Dump([transactions |-> <<[PriorRec EXCEPT !.date = Str("yesterday")]>>, budgets |-> <<>>])),
      File(<<Tok("garbage")>>),
      File(<<Tok("["), Tok("]")>>),
      File(Dump([transactions |-> <<Without(PriorRec, "amount")>>, budgets |-> <<>>])),
      File(Dump([transactions |-> <<[PriorRec EXCEPT !.amount = Str("4.00")]>>, budgets |-> <<>>])) }

----------------------------------------------------------------------------
(* What the front end passes in *)

\* add_transaction(amount, category, description, transaction_type)
TxInputs ==
    { <<-3, "Food", "lunch", "expense">>,
      <<4, "Rent", "flat", "expense">>,
      <<4, "Food", "refund", "Income">> }
\* set_budget(category, amount)
BudgetInputs == { <<"Food", 7>>, <<"Rent", 4>> }
QueryDays == {0, DefaultDays}

NoOut == [op |-> "", days |-> 0, txs |-> <<>>, status |-> <<>>, insights |-> NoInsights]
Call(op, outcome) == [op |-> op, outcome |-> outcome]

\* Before main_menu runs: any of the files; a file that cannot be written is
\* the one an earlier run left
Init ==
    /\ disk \in InitialFiles
    /\ writable \in BOOLEAN
    /\ ~writable => disk = PriorFile
    /\ now = [day |-> StartDay, tod |-> 0]
    /\ pc = "start"
    /\ transactions = <<>>
    /\ budgets = <<>>
    /\ pending = <<>>
    /\ warned = FALSE
    /\ last = Call("", "")
    /\ out = NoOut

\* main_menu: tracker = FinanceTracker()
Start ==
    /\ pc = "start"
    /\ LET r == load_data(disk, now) IN
        /\ transactions' = r.transactions
        /\ budgets' = r.budgets
        /\ warned' = r.warned
        /\ pc' = IF r.err = "" THEN "idle" ELSE "dead"
        /\ last' = Call("load_data", IF r.err = "" THEN "returned" ELSE r.err)
    /\ out' = NoOut
    /\ UNCHANGED <<disk, writable, now, pending>>

\* save_data up to open(self.data_file, 'w'): the open fails, or truncates the
\* file and leaves json.dump to write its tokens
BeginSave(op, txs, b) ==
    IF writable
    THEN /\ disk' = File(<<>>)
         /\ pending' = Dump(SaveDict(txs, b))
         /\ pc' = "saving"
         /\ last' = Call(op, "running")
    ELSE /\ UNCHANGED <<disk, pending, pc>>
         /\ last' = Call(op, "OSError")

\* add_transaction that appends only once the file could be opened
add_transaction_restoring(amount, category, description, transaction_type) ==
    /\ pc = "idle"
    /\ Len(transactions) < MaxTx
    /\ transactions' =
          IF writable
          THEN Append(transactions,
                  NewTransaction(amount, category, description, transaction_type, Null, now))
          ELSE transactions
    /\ BeginSave("add_transaction", transactions', budgets)
    /\ out' = NoOut
    /\ UNCHANGED <<writable, now, budgets, warned>>

add_transaction(amount, category, description, transaction_type) ==
    /\ pc = "idle"
    /\ Len(transactions) < MaxTx
    /\ transactions' = Append(transactions,
            NewTransaction(amount, category, description, transaction_type, Null, now))
    /\ BeginSave("add_transaction", transactions', budgets)
    /\ out' = NoOut
    /\ UNCHANGED <<writable, now, budgets, warned>>

set_budget(category, amount) ==
    /\ pc = "idle"
    /\ budgets' = DictSet(budgets, Lower(category), amount)
    /\ BeginSave("set_budget", transactions, budgets')
    /\ out' = NoOut
    /\ UNCHANGED <<writable, now, transactions, warned>>

\* main_menu, choice 9: tracker.save_data()
save_data ==
    /\ pc = "idle"
    /\ BeginSave("save_data", transactions, budgets)
    /\ out' = NoOut
    /\ UNCHANGED <<writable, now, transactions, budgets, warned>>

\* A reporting call: strptime raises ValueError on a bad date, nothing is returned
Report(op, value) ==
    /\ pc = "idle"
    /\ IF BadDate(transactions)
       THEN /\ out' = NoOut
            /\ last' = Call(op, "ValueError")
       ELSE /\ out' = value
            /\ last' = Call(op, "returned")
    /\ UNCHANGED <<disk, writable, now, pc, transactions, budgets, pending, warned>>

TransactionsByPeriod(days) ==
    Report("get_transactions_by_period",
           [NoOut EXCEPT !.op = "get_transactions_by_period", !.days = days,
                         !.txs = get_transactions_by_period(transactions, days, now)])

CheckBudgets ==
    Report("check_budgets",
           [NoOut EXCEPT !.op = "check_budgets", !.days = DefaultDays,
                         !.status = check_budgets(transactions, budgets, now)])

FinancialInsights(days) ==
    Report("get_financial_insights",
           [NoOut EXCEPT !.op = "get_financial_insights", !.days = days,
                         !.insights = get_financial_insights(transactions, budgets, days, now)])

\* json.dump writes its tokens, the file is closed and the call returns
Write ==
    /\ pc = "saving"
    /\ disk' = File(disk.content \o pending)
    /\ pending' = <<>>
    /\ pc' = "idle"
    /\ last' = Call(last.op, "returned")
    /\ UNCHANGED <<writable, now, transactions, budgets, warned, out>>

\* The process ends (exit, an uncaught exception); the next one starts afresh
Stop ==
    /\ pc \in {"idle", "dead"}
    /\ pc' = "start"
    /\ transactions' = <<>>
    /\ budgets' = <<>>
    /\ warned' = FALSE
    /\ last' = Call("", "")
    /\ out' = NoOut
    /\ UNCHANGED <<disk, writable, now, pending>>

\* The process is killed while json.dump runs, k of its tokens written
Kill ==
    /\ pc = "saving"
    /\ \E k \in 0..(Len(pending) - 1) : disk' = File(disk.content \o SubSeq(pending, 1, k))
    /\ pc' = "start"
    /\ transactions' = <<>>
    /\ budgets' = <<>>
    /\ pending' = <<>>
    /\ warned' = FALSE
    /\ last' = Call("", "")
    /\ out' = NoOut
    /\ UNCHANGED <<writable, now>>

\* Time passes between two calls
Tick ==
    /\ pc = "idle"
    /\ timestamp(now) < StartDay * TicksPerDay + MaxTicks
    /\ now' = IF now.tod + 1 < TicksPerDay
              THEN [now EXCEPT !.tod = now.tod + 1]
              ELSE [day |-> now.day + 1, tod |-> 0]
    /\ out' = NoOut
    /\ UNCHANGED <<disk, writable, pc, transactions, budgets, pending, warned, last>>

\* The data file is made writable
Chmod ==
    /\ pc = "idle"
    /\ ~writable
    /\ writable' = TRUE
    /\ out' = NoOut
    /\ UNCHANGED <<disk, now, pc, transactions, budgets, pending, warned, last>>

Next ==
    \/ Start
    \/ \E i \in TxInputs : add_transaction(i[1], i[2], i[3], i[4])
    \/ \E i \in BudgetInputs : set_budget(i[1], i[2])
    \/ save_data
    \/ \E days \in QueryDays : TransactionsByPeriod(days)
    \/ CheckBudgets
    \/ \E days \in QueryDays : FinancialInsights(days)
    \/ Write
    \/ Stop
    \/ Kill
    \/ Tick
    \/ Chmod

Spec == Init /\ [][Next]_vars

----------------------------------------------------------------------------
(* Properties *)

Returned(ops) == last.op \in ops /\ last.outcome = "returned"

\* C1: once add_transaction or set_budget has returned, a store loaded from
\* the file holds the same transactions, in the same order and with the same
\* id, amount, category, description, type and date, and the same budgets as
\* the store in memory.
C1_SavedStoreLoadsBack ==
    Returned({"add_transaction", "set_budget"}) =>
        LET r == load_data(disk, now)
        IN  /\ r.err = ""
            /\ ~r.warned
            /\ r.transactions = transactions
            /\ r.budgets = budgets

\* The file holds two transactions and a budget, and time has passed since
\* the first transaction was created.
C1_Witness ==
    /\ Returned({"add_transaction"})
    /\ Len(transactions) = 2
    /\ budgets # <<>>
    /\ transactions[1].id # timestamp(now)

RequiredFields == {"id", "amount", "category", "description", "type", "date"}

MalformedRecord(r) ==
    \/ RequiredFields \ DOMAIN r # {}
    \/ r["id"].t # "num"
    \/ r["amount"].t # "num"
    \/ \E f \in {"category", "description", "type"} : r[f].t # "str"

Malformed(f) ==
    /\ f.exists
    /\ LET d == JsonLoad(f.content)
       IN  \/ d.err # ""
           \/ d.kind # "object"
           \/ \E i \in 1..Len(d.transactions) : MalformedRecord(d.transactions[i])

\* C2: load_data on an existing malformed file (unparseable, of the wrong
\* structure, or with a record that lacks or mistypes a required field) does
\* not raise: it leaves an empty store and prints the warning.
C2_LoadNeverRaises ==
    (last.op = "load_data" /\ Malformed(disk)) =>
        /\ last.outcome = "returned"
        /\ transactions = <<>>
        /\ budgets = <<>>
        /\ warned

\* C3: a save is atomic: every step of it leaves the file as it was or makes
\* it the complete serialization of the store being saved, never an empty or
\* partial document.
C3_SaveIsAtomic ==
    [][(pc = "saving" \/ pc' = "saving") =>
          \/ disk' = disk
          \/ disk' = File(Dump(SaveDict(transactions', budgets')))
          \/ disk' = File(Dump(SaveDict(transactions, budgets)))]_vars

\* C4: every key of the budgets mapping is lowercase in every state of the store.
C4_BudgetKeysLowercase == \A k \in Keys(budgets) : Lower(k) = k

\* C5: no two transactions of the store share an id.
C5_UniqueIds ==
    \A i, j \in 1..Len(transactions) :
        i # j => transactions[i].id # transactions[j].id

\* C6: get_transactions_by_period(days) returns, in insertion order, exactly
\* the transactions whose calendar date is on or after today's date minus
\* `days` days.
C6_PeriodByCalendarDate ==
    out.op = "get_transactions_by_period" =>
        out.txs = SelectSeq(transactions,
                            LAMBDA tx : strptime(tx.date).day >= now.day - out.days)

\* The expenses of one category among txs
SpentOn(category, txs) ==
    SumAmounts(SelectSeq(txs, LAMBDA tx : tx.type = "expense" /\ tx.category = category))

\* C7: check_budgets returns one entry per budgeted category and no other;
\* spent is the sum of the expense transactions of that category that
\* get_transactions_by_period(30) returns, remaining is budget - spent, and
\* percentage is spent / budget * 100 when budget > 0 and 0 otherwise.
C7_BudgetStatus ==
    out.op = "check_budgets" =>
        LET window == get_transactions_by_period(transactions, DefaultDays, now)
        IN  /\ Len(out.status) = Len(budgets)
            /\ \A i \in 1..Len(budgets) :
                  LET e     == out.status[i]
                      spent == SpentOn(budgets[i].key, window)
                  IN  /\ e.category = budgets[i].key
                      /\ e.budget = budgets[i].amount
                      /\ e.spent = spent
                      /\ e.remaining = e.budget - spent
                      /\ e.budget > 0 =>
                            /\ e.percentage.den > 0
                            /\ e.percentage.num * e.budget = spent * 100 * e.percentage.den
                      /\ e.budget <= 0 => e.percentage.num = 0

\* A budgeted category has expenses and an income transaction.
C7_Witness ==
    /\ out.op = "check_budgets"
    /\ \E i \in 1..Len(out.status) :
          /\ out.status[i].budget > 0
          /\ out.status[i].spent > 0
          /\ \E j \in 1..Len(transactions) :
                /\ transactions[j].type = "income"
                /\ transactions[j].category = out.status[i].category

\* The recommendation, if any, of the budgeted categories i..Len(b), by the
\* expenses of the window txs
RECURSIVE CategoryRules(_, _, _)
CategoryRules(b, i, txs) ==
    IF i > Len(b) THEN <<>>
    ELSE LET spent == SpentOn(b[i].key, txs)
             limit == b[i].amount
             rule  == IF limit > 0 /\ spent * 100 > 90 * limit
                      THEN <<<<"exceeded 90%", b[i].key>>>>
                      ELSE IF limit > 0 /\ spent * 100 > 75 * limit
                      THEN <<<<"at percentage", b[i].key>>>>
                      ELSE <<>>
         IN  rule \o CategoryRules(b, i + 1, txs)

\* C8: when the period of get_financial_insights(days) holds a transaction,
\* the recommendations are, in this order: the overspending warning iff
\* net < 0 over the period; the spending-ratio warning iff expenses >
\* 0.8 * income over the period; then, for each budgeted category in the
\* order of the budgets and by its spending of the last 30 days whatever
\* `days` is, the over-90% alert if percentage > 90, else the warning if
\* percentage > 75, else nothing.
C8_Recommendations ==
    out.op = "get_financial_insights" =>
        LET p        == get_transactions_by_period(transactions, out.days, now)
            income   == SumAmounts(SelectSeq(p, LAMBDA tx : tx.type = "income"))
            expenses == SumAmounts(SelectSeq(p, LAMBDA tx : tx.type = "expense"))
            recs     == out.insights.recommendations
        IN  p # <<>> =>
              /\ ~out.insights.message
              /\ [i \in 1..Len(recs) |-> <<recs[i].kind, recs[i].category>>]
                   = (IF income - expenses < 0
                      THEN <<<<"spending more than you earn", "">>>> ELSE <<>>)
                     \o (IF 10 * expenses > 8 * income
                         THEN <<<<"spending 80%+ of your income", "">>>> ELSE <<>>)
                     \o CategoryRules(budgets, 1,
                            get_transactions_by_period(transactions, DefaultDays, now))

\* Insights over zero days whose period is smaller than the 30-day window and
\* that carry a budget recommendation.
C8_Witness ==
    /\ out.op = "get_financial_insights"
    /\ out.days = 0
    /\ ~out.insights.message
    /\ Len(get_transactions_by_period(transactions, 0, now))
         < Len(get_transactions_by_period(transactions, DefaultDays, now))
    /\ \E i \in 1..Len(out.insights.recommendations) :
          out.insights.recommendations[i].category # ""

\* C9: every transaction of the store has an amount >= 0, whether it was
\* added with a negative amount or loaded from a record with one.
C9_AmountsNonNegative ==
    \A i \in 1..Len(transactions) : transactions[i].amount >= 0

\* The store holds the record persisted with amount -3 and a transaction
\* added with amount -3.
C9_Witness ==
    /\ Len(transactions) = 2
    /\ transactions[1].id = 7
    /\ transactions[1].amount = 3
    /\ transactions[2].description = "lunch"
    /\ transactions[2].amount = 3
    /\ last.op = "add_transaction"

\* The step is a call of op that ends with the failure of open()
FailedCall(op) ==
    /\ last'.op = op
    /\ last'.outcome = "OSError"
    /\ now' = now
    /\ writable' = writable

\* C10 as stated: a call whose save fails leaves the store in memory as it
\* was before the call.
C10_FailedCallRestoresStore ==
    [][(FailedCall("add_transaction") \/ FailedCall("set_budget")) =>
          (transactions' = transactions /\ budgets' = budgets)]_vars

\* C10, amended: a call whose save fails because the file is not writable
\* leaves the file as it was and keeps its change in memory (the transaction
\* stays appended, the budget stays set); the store in memory loses nothing
\* while the process lives, and every save that returns has written all of it.
C10_FailedCallKeepsMutation ==
    [][/\ FailedCall("add_transaction") =>
            /\ disk' = disk
            /\ budgets' = budgets
            /\ Len(transactions') = Len(transactions) + 1
            /\ SubSeq(transactions', 1, Len(transactions)) = transactions
       /\ FailedCall("set_budget") =>
            /\ disk' = disk
            /\ transactions' = transactions
            /\ \E i \in 1..Len(budgets') :
                  /\ Lower(budgets'[i].key) = budgets'[i].key
                  /\ budgets' = DictSet(budgets, budgets'[i].key, budgets'[i].amount)
       /\ (pc \in {"idle", "saving"} /\ pc' \in {"idle", "saving"}) =>
            /\ Len(transactions') >= Len(transactions)
            /\ SubSeq(transactions', 1, Len(transactions)) = transactions
            /\ Keys(budgets) \subseteq Keys(budgets')
       /\ (last.outcome = "running" /\ last'.outcome = "returned") =>
            LET r == load_data(disk', now')
            IN  r.transactions = transactions' /\ r.budgets = budgets'
      ]_vars

\* add_transaction has just failed, and the store holds a transaction the
\* file does not.
C10_Witness ==
    /\ last = Call("add_transaction", "OSError")
    /\ load_data(disk, now).transactions # transactions
    /\ Len(load_data(disk, now).transactions) = Len(transactions) - 1

====
